---- MODULE Spec2Model ----
(***************************************************************************)
(* The used-vehicle dashboard of src/app.py as a state machine.            *)
(*                                                                         *)
(* One behaviour is a sequence of script runs ("render cycles") inside     *)
(* one server process.  A run executes the script top to bottom:           *)
(*   load_data()  ->  sidebar filters  ->  filter  ->  metrics  ->         *)
(*   charts  ->  optional table,                                           *)
(* or it stops early: load_data() returned None (else branch), or a        *)
(* statement raised.  The only state that survives a run is the            *)
(* st.cache_data entry of load_data and the file on disk.                  *)
(*                                                                         *)
(* Numbers.  pd.to_numeric yields float64.  A number is modelled in fixed  *)
(* point, in tenths: 20165 is 2016.5.  A numeric cell is a record          *)
(* [isna, val]; NaN is the record with isna = TRUE.                        *)
(***************************************************************************)
EXTENDS Integers, Sequences, FiniteSets, TLC

\* Bounds of the model.
MaxRows == 2
MaxReads == 2

VARIABLES
    file_status,        \* data/vehicles_us.csv: "ok", "unreadable", "missing" (never
                        \* there) or "removed" (deleted while the process runs)
    file_columns,       \* header of the file (the columns the script looks at)
    file_rows,          \* the file's rows: sequence of [file_columns -> string]
    cache,              \* st.cache_data entry of load_data: NoEntry or [value, messages]
    storage_reads,      \* number of pd.read_csv calls made by the process
    pc,                 \* position of the current script run
    df,                 \* module-level df (line 42): NotLoaded, None or a frame
    selected_years,     \* slider value <<lo, hi>> (integers)
    selected_fuels,     \* multiselect value
    selected_conditions,\* multiselect value
    filtered_df,        \* NotComputed or a frame
    metrics,            \* the st.metric values shown so far, label -> value
    rendered,           \* the widgets, charts and tables rendered in this run
    messages,           \* st.error / st.warning boxes shown in this run
    exception           \* "none" or the exception that ended the run

vars == <<file_status, file_columns, file_rows, cache, storage_reads, pc, df,
          selected_years, selected_fuels, selected_conditions, filtered_df,
          metrics, rendered, messages, exception>>

----------------------------------------------------------------------------
\* Values

None == [none |-> TRUE]
NotLoaded == [notloaded |-> TRUE]
NotComputed == [notcomputed |-> TRUE]
NoEntry == [noentry |-> TRUE]
NoYears == <<>>

NaN == [isna |-> TRUE, val |-> 0]
Num(v) == [isna |-> FALSE, val |-> v]

RequiredColumns == {"model_year", "odometer", "price"}
OptionalColumns == {"fuel", "condition"}
AllColumns == RequiredColumns \cup OptionalColumns

\* The cell texts a file may hold, per column.  "" is an empty cell.  The
\* columns of a file are the ones among AllColumns it has; a file may have
\* other columns (model, ...), which the loader and the filter never read.
YearCells == {"2015", "2016.5", "abc"}
OdometerCells == {"50000", "n/a"}
PriceCells == {"10000", ""}
FuelCells == {"gas", "diesel"}
ConditionCells == {"good"}

CellsOf(col) ==
    CASE col = "model_year" -> YearCells
      [] col = "odometer" -> OdometerCells
      [] col = "price" -> PriceCells
      [] col = "fuel" -> FuelCells
      [] col = "condition" -> ConditionCells

AllCells == UNION {CellsOf(c) : c \in AllColumns}

RowsOver(cols) == {r \in [cols -> AllCells] : \A c \in cols : r[c] \in CellsOf(c)}

----------------------------------------------------------------------------
\* load_data (lines 17-40)

\* pd.to_numeric(cell, errors='coerce'): the decimal text as a float (here in
\* tenths), NaN for an empty cell and for text that is no number.
ToNumeric(cell) ==
    CASE cell = "2015" -> Num(20150)
      [] cell = "2016.5" -> Num(20165)
      [] cell = "50000" -> Num(500000)
      [] cell = "10000" -> Num(100000)
      [] OTHER -> NaN

\* pd.read_csv on a readable file: the rows under a RangeIndex (field idx).
ReadCsv(cols, rows) ==
    [columns |-> cols,
     rows |-> [i \in DOMAIN rows |->
                 [c \in cols \cup {"idx"} |-> IF c = "idx" THEN i ELSE rows[i][c]]]]

\* df[col] = pd.to_numeric(df[col], errors='coerce') (line 31)
CoerceColumn(frame, col) ==
    [frame EXCEPT !.rows = [i \in DOMAIN frame.rows |->
                              [frame.rows[i] EXCEPT ![col] = ToNumeric(@)]]]

\* for col in numeric_cols: if col in df.columns: ... (lines 28-31)
CoerceNumericCols(frame) ==
    LET Step(f, col) == IF col \in f.columns THEN CoerceColumn(f, col) ELSE f
    IN Step(Step(Step(frame, "model_year"), "odometer"), "price")

\* Variant: price left out of the subset.
DropSubsetWithoutPrice == {"model_year", "odometer"}

\* The subset of dropna (line 33).
DropSubset == {"model_year", "odometer", "price"}

\* df.dropna(subset=...) on a frame that has the subset's columns (line 33)
DropNa(frame) ==
    [frame EXCEPT !.rows = SelectSeq(frame.rows,
                                     LAMBDA r : \A c \in DropSubset : ~r[c].isna)]

ErrorBox(text) == [kind |-> "error", text |-> text]
WarningBox(text) == [kind |-> "warning", text |-> text]

\* Variant: the column check is skipped.
SchemaCheckSkipped(frame) == FALSE

\* if 'model_year' not in df.columns (line 23)
SchemaCheckFails(frame) == "model_year" \notin frame.columns

\* Variant: the exception is swallowed without a message.
OnExceptionSilent(exc) == [value |-> None, messages |-> <<>>]

\* The except clauses (lines 35-40): one st.error box, None returned.
OnException(exc) ==
    [value |-> None,
     messages |-> <<ErrorBox(IF exc = "FileNotFoundError"
                             THEN "SourceNotFound" ELSE "LoadFailure")>>]

\* The body of load_data: what it returns and the st.error boxes it shows.
\* An unreadable file (empty, malformed, undecodable) makes read_csv raise
\* an exception other than FileNotFoundError.
LoadDataBody(status, cols, rows) ==
    IF status \in {"missing", "removed"} THEN OnException("FileNotFoundError")
    ELSE IF status = "unreadable" THEN OnException("ParserError")
    ELSE LET raw == ReadCsv(cols, rows) IN
         IF SchemaCheckFails(raw)
         THEN [value |-> None, messages |-> <<ErrorBox("SchemaError")>>]
         ELSE LET coerced == CoerceNumericCols(raw) IN
              IF ~(DropSubset \subseteq coerced.columns)
              THEN OnException("KeyError")
              ELSE [value |-> DropNa(coerced), messages |-> <<>>]

\* Variant: the entry is never found.
CacheLookupAlwaysMiss(c) == NoEntry

\* @st.cache_data (line 17): the entry found for load_data(), if any.
CacheLookup(c) == c

----------------------------------------------------------------------------
\* The script (lines 42-140)

\* float -> int as Python's int(): truncation toward zero.
IntOf(v) == IF v >= 0 THEN v \div 10 ELSE -((-v) \div 10)
FromInt(n) == n * 10

RECURSIVE SumOf(_, _)
SumOf(rows, col) ==
    IF rows = <<>> THEN 0 ELSE Head(rows)[col].val + SumOf(Tail(rows), col)

ColumnValues(frame, col) == {frame.rows[i][col] : i \in DOMAIN frame.rows}

\* Series.min() / Series.max(): NaN on an empty column.
SeriesMin(frame, col) ==
    IF frame.rows = <<>> THEN NaN
    ELSE LET vs == {x.val : x \in ColumnValues(frame, col)}
         IN Num(CHOOSE m \in vs : \A v \in vs : m <= v)
SeriesMax(frame, col) ==
    IF frame.rows = <<>> THEN NaN
    ELSE LET vs == {x.val : x \in ColumnValues(frame, col)}
         IN Num(CHOOSE m \in vs : \A v \in vs : m >= v)

\* Series.mean(): NaN on an empty column (the quotient is kept in tenths).
SeriesMean(frame, col) ==
    IF frame.rows = <<>> THEN NaN
    ELSE Num(SumOf(frame.rows, col) \div Len(frame.rows))

\* Variant: the upper bound is exclusive.
BetweenExclusive(x, lo, hi) == FromInt(lo) <= x.val /\ x.val < FromInt(hi)

\* Series.between(lo, hi): inclusive on both sides (line 77)
Between(x, lo, hi) == FromInt(lo) <= x.val /\ x.val <= FromInt(hi)

\* Variant: an empty selection selects everything.
IsInEmptyIsAll(x, values) == values = {} \/ x \in values

\* Series.isin(values) (lines 80, 83)
IsIn(x, values) == x \in values

\* Lines 77-83.  df[mask] keeps the rows the mask holds for, in order, with
\* their index labels.
YearFilter(frame, years) ==
    [frame EXCEPT !.rows =
       SelectSeq(frame.rows, LAMBDA r : Between(r["model_year"], years[1], years[2]))]
FuelFilter(frame, view, fuels) ==
    IF "fuel" \in frame.columns
    THEN [view EXCEPT !.rows = SelectSeq(view.rows, LAMBDA r : IsIn(r["fuel"], fuels))]
    ELSE view
ConditionFilter(frame, view, conditions) ==
    IF "condition" \in frame.columns
    THEN [view EXCEPT !.rows =
            SelectSeq(view.rows, LAMBDA r : IsIn(r["condition"], conditions))]
    ELSE view

\* Variant: the filter result is bound to df itself.
DfAfterFilterRebinds(frame, view) == view

\* The frame the name df is bound to after the filter statements: they bind
\* filtered_df only.
DfAfterFilter(frame, view) == frame

\* Lines 52-53: int(df["model_year"].min()), int(df["model_year"].max()).
\* int(NaN) raises ValueError.
YearBoundsRaise(frame) == SeriesMin(frame, "model_year").isna
MinYear(frame) == IntOf(SeriesMin(frame, "model_year").val)
MaxYear(frame) == IntOf(SeriesMax(frame, "model_year").val)

\* The values st.slider can return (lines 54-59): a pair inside the bounds.
SliderValues(lo, hi) ==
    {<<a, b>> : a \in lo..hi, b \in lo..hi} \cap {p \in (lo..hi) \X (lo..hi) : p[1] <= p[2]}

\* df[col].unique() (lines 62, 70)
Unique(frame, col) == ColumnValues(frame, col)

\* Lines 76-83 as a whole.
ApplyFilter(frame, years, fuels, conditions) ==
    ConditionFilter(frame, FuelFilter(frame, YearFilter(frame, years), fuels),
                    conditions)

\* f"{x:,.0f}": x rounded to an integer, ties to even; "nan" for NaN.
FormatZeroDecimals(x) ==
    IF x.isna THEN NaN
    ELSE LET q == x.val \div 10
             r == x.val % 10
         IN Num(IF r > 5 \/ (r = 5 /\ q % 2 = 1) THEN q + 1 ELSE q)

\* px.scatter(color=...) (line 123) raises ValueError when the column it
\* names is not in the frame.
ScatterColor(frame) == IF "condition" \in frame.columns THEN "condition" ELSE "fuel"
ScatterRaises(frame) == ScatterColor(frame) \notin frame.columns

Init ==
    /\ \/ /\ file_status = "ok"
          /\ \E cols \in SUBSET AllColumns :
               \E n \in 0..MaxRows :
                 \E rows \in [1..n -> RowsOver(cols)] :
                   /\ file_columns = cols
                   /\ file_rows = rows
       \/ /\ file_status \in {"missing", "unreadable"}
          /\ file_columns = {}
          /\ file_rows = <<>>
    /\ cache = NoEntry
    /\ storage_reads = 0
    /\ pc = "start"
    /\ df = NotLoaded
    /\ selected_years = NoYears
    /\ selected_fuels = {}
    /\ selected_conditions = {}
    /\ filtered_df = NotComputed
    /\ metrics = <<>>
    /\ rendered = {}
    /\ messages = <<>>
    /\ exception = "none"

fileVars == <<file_status, file_columns, file_rows>>
specVars == <<selected_years, selected_fuels, selected_conditions>>

\* df = load_data() with no cache entry: the body runs, its result and the
\* boxes it showed are stored.
LoadDataMiss ==
    /\ pc = "start"
    /\ CacheLookup(cache) = NoEntry
    /\ storage_reads < MaxReads
    /\ LET res == LoadDataBody(file_status, file_columns, file_rows) IN
         /\ cache' = res
         /\ df' = res.value
         /\ messages' = messages \o res.messages
    /\ storage_reads' = storage_reads + 1
    /\ pc' = "loaded"
    /\ UNCHANGED <<fileVars, specVars, filtered_df, metrics, rendered, exception>>

\* df = load_data() with a cache entry: the stored result is returned and the
\* stored boxes are replayed; the body does not run.
LoadDataHit ==
    /\ pc = "start"
    /\ CacheLookup(cache) # NoEntry
    /\ df' = CacheLookup(cache).value
    /\ messages' = messages \o CacheLookup(cache).messages
    /\ pc' = "loaded"
    /\ UNCHANGED <<fileVars, cache, storage_reads, specVars, filtered_df, metrics,
                   rendered, exception>>

\* else branch (lines 139-140)
LoadFailed ==
    /\ pc = "loaded"
    /\ df = None
    /\ messages' = Append(messages, WarningBox("NoVisualizations"))
    /\ pc' = "done"
    /\ UNCHANGED <<fileVars, cache, storage_reads, df, specVars, filtered_df,
                   metrics, rendered, exception>>

\* Sidebar (lines 46-74): the year bounds, the slider and the two
\* multiselects.  The user may pick any value the controls offer.
SidebarFilters ==
    /\ pc = "loaded"
    /\ df # None
    /\ IF YearBoundsRaise(df)
       THEN /\ exception' = "ValueError"
            /\ pc' = "raised"
            /\ UNCHANGED <<specVars, rendered>>
       ELSE /\ \E years \in SliderValues(MinYear(df), MaxYear(df)) :
                 selected_years' = years
            /\ IF "fuel" \in df.columns
               THEN \E fuels \in SUBSET Unique(df, "fuel") : selected_fuels' = fuels
               ELSE UNCHANGED selected_fuels
            /\ IF "condition" \in df.columns
               THEN \E conds \in SUBSET Unique(df, "condition") :
                      selected_conditions' = conds
               ELSE UNCHANGED selected_conditions
            /\ rendered' = rendered \cup {"year_slider"}
                 \cup (IF "fuel" \in df.columns THEN {"fuel_multiselect"} ELSE {})
                 \cup (IF "condition" \in df.columns
                       THEN {"condition_multiselect"} ELSE {})
            /\ pc' = "sidebar"
            /\ UNCHANGED exception
    /\ UNCHANGED <<fileVars, cache, storage_reads, df, filtered_df, metrics, messages>>

\* Aplicar filtros (lines 76-83)
ApplyFilters ==
    /\ pc = "sidebar"
    /\ LET view == ApplyFilter(df, selected_years, selected_fuels,
                               selected_conditions) IN
         /\ filtered_df' = view
         /\ df' = DfAfterFilter(df, view)
    /\ pc' = "filtered"
    /\ UNCHANGED <<fileVars, cache, storage_reads, specVars, metrics, rendered,
                   messages, exception>>

\* Metricas Clave (lines 86-91).  Line 88 shows the count; line 89 applies
\* int() to the mean year and raises ValueError when the mean is NaN.
KeyMetrics ==
    /\ pc = "filtered"
    /\ LET count == [label |-> "Vehiculos", value |-> Num(FromInt(Len(filtered_df.rows)))]
           year == SeriesMean(filtered_df, "model_year")
       IN IF year.isna
          THEN /\ metrics' = <<count>>
               /\ exception' = "ValueError"
               /\ pc' = "raised"
          ELSE /\ metrics' =
                    <<count,
                      [label |-> "Ano promedio", value |-> Num(FromInt(IntOf(year.val)))],
                      [label |-> "Precio promedio",
                       value |-> FormatZeroDecimals(SeriesMean(filtered_df, "price"))],
                      [label |-> "Km promedio",
                       value |-> FormatZeroDecimals(SeriesMean(filtered_df, "odometer"))]>>
               /\ pc' = "metrics"
               /\ UNCHANGED exception
    /\ rendered' = rendered \cup {"metrics"}
    /\ UNCHANGED <<fileVars, cache, storage_reads, df, specVars, filtered_df, messages>>

\* Visualizaciones (lines 93-128)
Visualizations ==
    /\ pc = "metrics"
    /\ \E visualization \in {"Histograma", "Dispersion", "Ambos"} :
         LET hist == visualization \in {"Histograma", "Ambos"}
             scat == visualization \in {"Dispersion", "Ambos"}
         IN IF scat /\ ScatterRaises(df)
            THEN /\ rendered' = rendered \cup (IF hist THEN {"histogram"} ELSE {})
                 /\ exception' = "ValueError"
                 /\ pc' = "raised"
            ELSE /\ rendered' = rendered \cup (IF hist THEN {"histogram"} ELSE {})
                                         \cup (IF scat THEN {"scatter"} ELSE {})
                 /\ pc' = "charts"
                 /\ UNCHANGED exception
    /\ UNCHANGED <<fileVars, cache, storage_reads, df, specVars, filtered_df, metrics,
                   messages>>

\* Datos filtrados (lines 130-138)
ShowData ==
    /\ pc = "charts"
    /\ \E show_data \in BOOLEAN :
         rendered' = rendered \cup (IF show_data THEN {"table"} ELSE {})
    /\ pc' = "done"
    /\ UNCHANGED <<fileVars, cache, storage_reads, df, specVars, filtered_df, metrics,
                   messages, exception>>

\* A user interaction (or a new session) runs the script again from the top,
\* in a fresh namespace; the cache entry stays.
Rerun ==
    /\ pc \in {"done", "raised"}
    /\ pc' = "start"
    /\ df' = NotLoaded
    /\ selected_years' = NoYears
    /\ selected_fuels' = {}
    /\ selected_conditions' = {}
    /\ filtered_df' = NotComputed
    /\ metrics' = <<>>
    /\ rendered' = {}
    /\ messages' = <<>>
    /\ exception' = "none"
    /\ UNCHANGED <<fileVars, cache, storage_reads>>

\* Between two runs the file may disappear from disk.
SourceRemoved ==
    /\ pc = "start"
    /\ file_status = "ok"
    /\ file_status' = "removed"
    /\ file_columns' = {}
    /\ file_rows' = <<>>
    /\ UNCHANGED <<cache, storage_reads, pc, df, specVars, filtered_df, metrics,
                   rendered, messages, exception>>

Next ==
    \/ LoadDataMiss
    \/ LoadDataHit
    \/ LoadFailed
    \/ SidebarFilters
    \/ ApplyFilters
    \/ KeyMetrics
    \/ Visualizations
    \/ ShowData
    \/ Rerun
    \/ SourceRemoved

Spec == Init /\ [][Next]_vars

----------------------------------------------------------------------------
\* Properties

IsFrame(x) == x \notin {None, NotLoaded, NotComputed}
FilterDone == IsFrame(filtered_df)

\* The FilterSpec condition of a record, as the data model states it.
PassesSpec(r) ==
    /\ selected_years[1] * 10 <= r["model_year"].val
    /\ r["model_year"].val <= selected_years[2] * 10
    /\ ("fuel" \notin df.columns \/ r["fuel"] \in selected_fuels)
    /\ ("condition" \notin df.columns \/ r["condition"] \in selected_conditions)

\* C1: the FilteredView is exactly the subsequence of the Dataset's records
\* that lie in the inclusive year range and, for each categorical column the
\* Dataset has, carry a selected value; nothing is added, altered or
\* reordered, and an absent categorical column filters nothing.
C1_FilteredViewIsSubsequence ==
    FilterDone =>
      /\ filtered_df.columns = df.columns
      /\ \A i \in DOMAIN filtered_df.rows :
           \E j \in DOMAIN df.rows :
             df.rows[j] = filtered_df.rows[i] /\ PassesSpec(df.rows[j])
      /\ \A j \in DOMAIN df.rows :
           PassesSpec(df.rows[j]) =>
             \E i \in DOMAIN filtered_df.rows : filtered_df.rows[i] = df.rows[j]
      /\ \A i, k \in DOMAIN filtered_df.rows :
           i < k => \E j, l \in DOMAIN df.rows :
                      /\ j < l
                      /\ df.rows[j] = filtered_df.rows[i]
                      /\ df.rows[l] = filtered_df.rows[k]

\* The spec's example shape: two records, a fuel column, all fuels selected,
\* the year range excludes the first record only.
C1_Witness ==
    /\ pc = "filtered"
    /\ Len(df.rows) = 2
    /\ "fuel" \in df.columns /\ "condition" \notin df.columns
    /\ selected_fuels = {"gas", "diesel"}
    /\ selected_years = <<2015, 2015>>
    /\ Len(filtered_df.rows) = 1
    /\ filtered_df.rows[1] = df.rows[2]

\* The cell texts that are decimal numbers.
NumericTexts == {"2015", "2016.5", "50000", "10000"}
GoodRow(i) == \A c \in RequiredColumns : file_rows[i][c] \in NumericTexts
FileAsRead == file_status = "ok" /\ cache # NoEntry

\* C2: for a file with the three required columns, the Dataset load returns
\* is exactly the file's rows, in file order, whose three required cells are
\* all numbers; every record has the three fields non-missing; the number of
\* rows removed is the number of rows with at least one bad required cell;
\* the optional cells are passed through and decide nothing.
C2_LoadKeepsExactlyGoodRows ==
    (FileAsRead /\ RequiredColumns \subseteq file_columns) =>
      LET ds == cache.value IN
        /\ IsFrame(ds)
        /\ ds.columns = file_columns
        /\ {ds.rows[k]["idx"] : k \in DOMAIN ds.rows}
             = {i \in DOMAIN file_rows : GoodRow(i)}
        /\ \A k, l \in DOMAIN ds.rows : k < l => ds.rows[k]["idx"] < ds.rows[l]["idx"]
        /\ \A k \in DOMAIN ds.rows :
             /\ \A c \in RequiredColumns : ~ds.rows[k][c].isna
             /\ \A c \in file_columns \cap OptionalColumns :
                  ds.rows[k][c] = file_rows[ds.rows[k]["idx"]][c]
        /\ Len(file_rows) - Len(ds.rows)
             = Cardinality({i \in DOMAIN file_rows : ~GoodRow(i)})

\* Two rows, the first failing in two fields at once, the second good.
C2_Witness ==
    /\ pc = "loaded"
    /\ FileAsRead
    /\ file_columns = AllColumns
    /\ Len(file_rows) = 2
    /\ file_rows[1]["model_year"] = "abc" /\ file_rows[1]["odometer"] = "n/a"
    /\ GoodRow(2)
    /\ IsFrame(df) /\ Len(df.rows) = 1 /\ df.rows[1]["idx"] = 2

\* C3: on an empty FilteredView the metrics step completes without raising,
\* with count 0 and the three means reported as NaN, and the run goes on to
\* the charts.
C3_EmptyViewMetricsComplete ==
    (FilterDone /\ filtered_df.rows = <<>> /\ pc # "filtered") =>
      /\ exception = "none"
      /\ Len(metrics) = 4
      /\ metrics[1].value = Num(0)
      /\ \A k \in 2..4 : metrics[k].value.isna

\* C4: a readable file without the model_year column ends load in
\* SchemaError: the schema message is the one box shown and None is returned.
C4_MissingModelYearIsSchemaError ==
    (FileAsRead /\ "model_year" \notin file_columns) =>
      /\ cache.value = None
      /\ cache.messages = <<ErrorBox("SchemaError")>>
      /\ (pc # "start" => df = None /\ messages[1] = ErrorBox("SchemaError"))

C4_Witness ==
    /\ pc = "loaded"
    /\ FileAsRead
    /\ file_columns = {"odometer", "price", "fuel"}
    /\ Len(file_rows) = 2
    /\ file_rows[1]["odometer"] = "50000" /\ file_rows[1]["price"] = "10000"

ErrorBoxes == {k \in DOMAIN messages : messages[k].kind = "error"}

\* C5: once load has returned, the run holds either a validated Dataset and
\* no error box, or None with exactly one error box naming SourceNotFound,
\* SchemaError or LoadFailure (the one the file's state calls for); in the
\* failure case no control, metric, chart or table is rendered, nothing
\* raises, and the file is not read again.
C5_LoadOutcomes ==
    pc # "start" =>
      \/ /\ IsFrame(df)
         /\ ErrorBoxes = {}
         /\ \A k \in DOMAIN df.rows : \A c \in RequiredColumns : ~df.rows[k][c].isna
      \/ /\ df = None
         /\ Cardinality(ErrorBoxes) = 1
         /\ messages[1].kind = "error"
         /\ messages[1].text \in {"SourceNotFound", "SchemaError", "LoadFailure"}
         /\ file_status = "unreadable" => messages[1].text = "LoadFailure"
         /\ (file_status = "ok" /\ "model_year" \notin file_columns)
              => messages[1].text = "SchemaError"
         /\ (file_status = "ok" /\ "model_year" \in file_columns)
              => messages[1].text = "LoadFailure"
         /\ file_status = "missing" => messages[1].text = "SourceNotFound"
         /\ rendered = {} /\ metrics = <<>> /\ filtered_df = NotComputed
         /\ selected_years = NoYears
         /\ exception = "none"
         /\ pc \in {"loaded", "done"}
         /\ storage_reads = 1

\* LoadFailure through a missing odometer column, at the end of the run.
C5_Witness ==
    /\ pc = "done"
    /\ df = None
    /\ file_status = "ok"
    /\ "model_year" \in file_columns /\ "odometer" \notin file_columns
    /\ messages = <<ErrorBox("LoadFailure"), WarningBox("NoVisualizations")>>

DefaultSpec ==
    /\ selected_years = <<MinYear(df), MaxYear(df)>>
    /\ "fuel" \in df.columns => selected_fuels = Unique(df, "fuel")
    /\ "condition" \in df.columns => selected_conditions = Unique(df, "condition")

\* C6: with the default FilterSpec (the year bounds the program derives, all
\* fuel and condition values selected) the view has the Dataset's record set.
C6_DefaultSpecKeepsEveryRecord ==
    (FilterDone /\ DefaultSpec) =>
      {filtered_df.rows[i] : i \in DOMAIN filtered_df.rows}
        = {df.rows[j] : j \in DOMAIN df.rows}

\* C7: with the fuel column present and no fuel selected the view is empty,
\* whatever the year range and the condition selection; likewise for the
\* condition column.
C7_EmptySelectionEmptyView ==
    (FilterDone /\ (\/ ("fuel" \in df.columns /\ selected_fuels = {})
                    \/ ("condition" \in df.columns /\ selected_conditions = {})))
      => Len(filtered_df.rows) = 0

C7_Witness ==
    /\ pc = "filtered"
    /\ Len(df.rows) = 2
    /\ "fuel" \in df.columns /\ selected_fuels = {}
    /\ "condition" \in df.columns /\ selected_conditions = {"good"}
    /\ selected_years = <<2015, 2016>>
    /\ filtered_df.rows = <<>>

\* C8: once the cache entry of load is written it never changes and the file
\* is never read again; every later load returns the entry's value.
C8_CacheWrittenOnce ==
    [][cache # NoEntry =>
         /\ cache' = cache
         /\ storage_reads' = storage_reads
         /\ (pc = "start" /\ pc' = "loaded") => df' = cache.value]_vars

\* A later run got its Dataset although the file is gone.
C8_Witness ==
    /\ pc = "loaded"
    /\ file_status = "removed"
    /\ storage_reads = 1
    /\ IsFrame(df) /\ Len(df.rows) = 2

\* C9: from load to the end of every run, df is the Dataset as loaded (the
\* cache entry's value), whatever was filtered in this run and before, and
\* the view's records are records of that Dataset.
C9_DatasetUnchangedByFilter ==
    pc # "start" =>
      /\ df = cache.value
      /\ FilterDone =>
           \A i \in DOMAIN filtered_df.rows :
             \E j \in DOMAIN cache.value.rows : cache.value.rows[j] = filtered_df.rows[i]

\* The end of a later run whose filter kept one record out of two.
C9_Witness ==
    /\ pc = "done"
    /\ file_status = "removed"
    /\ IsFrame(df) /\ Len(df.rows) = 2
    /\ FilterDone /\ Len(filtered_df.rows) = 1
    /\ "table" \in rendered

\* C10: whenever load returned a Dataset, the sidebar step completes: the
\* year slider is built on integer bounds min_year <= max_year and nothing
\* raises before the filter step.
C10_SidebarCompletes ==
    (IsFrame(df) /\ pc \notin {"start", "loaded"}) =>
      /\ "year_slider" \in rendered
      /\ selected_years # NoYears
      /\ MinYear(df) <= MaxYear(df)

====
